---- MODULE Spec2Model ----
(***************************************************************************)
(* Form state and validation engine of xm-rn-ui, in its two variants:      *)
(*   - useCreateForm  (src/form/form-2.tsx)             : SpecCreateForm   *)
(*   - useForm        (src/components/form/form-3.tsx)  : SpecForm         *)
(* Every asynchronous function is cut at its awaits: the code between two  *)
(* awaits is one atomic step (JavaScript is single threaded), and any      *)
(* other operation may run while a call is suspended at an await.          *)
(***************************************************************************)
EXTENDS Integers, Sequences, FiniteSets, TLC

(* ------------------------------ bounds -------------------------------- *)

\* validate / validateField calls started in one behaviour
MaxCalls == 2

\* mutating operations of the consumer in one behaviour (the refresh counter
\* counts them; continuations of running calls are not limited)
MaxRefresh == 4

\* calls of functions wrapped by addLoading in one behaviour
MaxWrapped == 2

\* direct Loading.open / Loading.close events in one behaviour
MaxDirect == 3

(* ------------------------- program constants -------------------------- *)

\* setRefreshTrigger(prev => (prev + 1) % 1000)
RefreshModulus == 1000

\* setRefresh(pre => (pre + 1) % 200)
RefreshModulus3 == 200

(* ------------------------------ inputs -------------------------------- *)

Fields == {"email", "username"}

\* JavaScript's undefined, as a value and as a rule's missing message
Undefined == "undefined"

\* values written by the consumer
Values == {"", "a@b.com"}

\* an errors entry that is present and undefined
NoError == [undefined |-> TRUE]

\* rule checks: what passWhen / validate computes
\*   required : value !== null && value !== undefined && value !== ''
\*   pass     : always true          fail : always false
\*   unique   : an asynchronous uniqueness check that resolves false
\*   throw    : the check throws / its promise rejects
Rule(check, message) == [check |-> check, message |-> message]

RequiredMessage == "This field is required"

required == Rule("required", RequiredMessage)

alwaysPass == Rule("pass", Undefined)

alwaysFail(msg) == Rule("fail", msg)

unique == Rule("unique", "taken")

throws == Rule("throw", Undefined)

\* the rule chains a consumer registers on a field
RuleChains(name) ==
    IF name = "email"
    THEN { <<required>>, <<alwaysPass, alwaysFail("msg")>>, <<required, alwaysFail("msg")>> }
    ELSE { <<alwaysPass>>, <<unique>>, <<throws>>, << >> }

\* the explicit name lists a consumer passes to validate
NameLists ==
    { << >>, <<"email">>, <<"username">>, <<"email", "username">> }

(* ------------------------- JavaScript objects ------------------------- *)

EmptyObject == << >>

\* { ...m, [k]: v }
Put(m, k, v) == [x \in (DOMAIN m) \cup {k} |-> IF x = k THEN v ELSE m[x]]

\* { ...a, ...b }
Merge(a, b) == [x \in (DOMAIN a) \cup (DOMAIN b) |-> IF x \in DOMAIN b THEN b[x] ELSE a[x]]

\* Reflect.deleteProperty(m, k)
Delete(m, k) == [x \in (DOMAIN m) \ {k} |-> m[x]]

\* m[k] of a value object: undefined when k is no key
Get(m, k) == IF k \in DOMAIN m THEN m[k] ELSE Undefined

\* m[k] of an errors object
GetError(m, k) == IF k \in DOMAIN m THEN m[k] ELSE NoError

\* m[k] || [] of a rules object
GetRules(m, k) == IF k \in DOMAIN m THEN m[k] ELSE << >>

\* m[k] || false
GetFlag(m, k) == IF k \in DOMAIN m THEN m[k] ELSE FALSE

Contains(seq, k) == \E j \in 1..Len(seq) : seq[j] = k

\* the key order of { ...m, [k]: v }: a new key goes last
KeysPut(keys, k) == IF Contains(keys, k) THEN keys ELSE Append(keys, k)

RECURSIVE KeysMerge(_, _)
KeysMerge(keys, more) ==
    IF more = << >> THEN keys ELSE KeysMerge(KeysPut(keys, Head(more)), Tail(more))

\* what a rule's check returns for a value
Check(rule, value) ==
    CASE rule.check = "required" -> IF value # Undefined /\ value # "" THEN "true" ELSE "false"
      [] rule.check = "pass" -> "true"
      [] rule.check = "fail" -> "false"
      [] rule.check = "unique" -> "false"
      [] rule.check = "throw" -> "throw"

(* ------------------------------ state --------------------------------- *)

VARIABLES
    initialValues,      \* useCreateForm's argument: [keys, map]
    formStateRef,       \* formStateRef.current: values (and their key order), errors, rules, isValidating, touched
    refreshTrigger,     \* useCreateForm's revision counter
    calls,              \* the validate / validateField calls of useCreateForm, each with its locals
    formFieldsValueRef, \* useForm: formFieldsValueRef.current
    formFieldsErrorRef, \* useForm: formFieldsErrorRef.current
    formFieldsRulesRef, \* useForm: formFieldsRulesRef.current
    refresh,            \* useForm's revision counter
    calls3,             \* the validate calls of useForm, each with its locals
    formItems,          \* the mounted FormItems: their name and destroyWhenUnmount props
    loadingCount,       \* Loading: the loadingCount state
    loading,            \* Loading: the loading state, which the Modal shows
    closeTimer,         \* Loading: closeTimer.current is a pending timer (TRUE) or null
    listening,          \* Loading: the mount effects ran, the listeners are subscribed
    rendered,           \* Loading: the loadingCount of the last committed render
    effectPending,      \* Loading: the effects of that render have not run yet
    wrapped,            \* the calls of functions wrapped by addLoading
    direct,             \* the direct Loading.open / Loading.close events emitted
    lastOp              \* the operation the last step belongs to, with its arguments

vars2 == <<initialValues, formStateRef, refreshTrigger, calls>>

vars3 == <<formFieldsValueRef, formFieldsErrorRef, formFieldsRulesRef, refresh, calls3>>

varsLoading ==
    <<loadingCount, loading, closeTimer, listening, rendered, effectPending, wrapped, direct>>

vars == <<vars2, vars3, formItems, varsLoading, lastOp>>

CallIds == 1..MaxCalls

\* a component or hook ran: enclosed tells whether a provider of the context it
\* reads is above it, thrown whether it threw
\* log lists the form operations it called, in the order of the calls
Render(op, name, value, enclosed, thrown, log) ==
    [op |-> op, name |-> name, value |-> value, flag |-> thrown, call |-> 0,
     enclosed |-> enclosed, log |-> log]

Op(op, name, value, flag, call) ==
    [op |-> op, name |-> name, value |-> value, flag |-> flag, call |-> call,
     enclosed |-> TRUE, log |-> << >>]

(* ===================== useCreateForm (form-2.tsx) ====================== *)

\* the hook's mutable state, as the operations below take and return it
Hook == [ref |-> formStateRef, refresh |-> refreshTrigger]

triggerRefresh(h) == [h EXCEPT !.refresh = (@ + 1) % RefreshModulus]

\* a write that keeps the value a field already holds
setValue_KeepFirst(h, name, value) ==
    triggerRefresh([h EXCEPT !.ref.values = IF name \in DOMAIN @ THEN @ ELSE Put(@, name, value),
                             !.ref.keys = KeysPut(@, name)])

\* a setValue that also clears the error of the field it writes
setValue_ClearsError(h, name, value) ==
    triggerRefresh([h EXCEPT !.ref.values = Put(@, name, value),
                             !.ref.keys = KeysPut(@, name),
                             !.ref.errors = [x \in DOMAIN @ |-> IF x = name THEN NoError ELSE @[x]]])

setValue(h, name, value) ==
    triggerRefresh([h EXCEPT !.ref.values = Put(@, name, value),
                             !.ref.keys = KeysPut(@, name)])

\* the forEach over the updated fields: an entry is cleared only where an
\* error is held
ClearUpdated(errors, updated) ==
    [x \in DOMAIN errors |->
        IF x \in updated /\ errors[x] # NoError THEN NoError ELSE errors[x]]

\* updates is an object [keys, map]
setValues(h, updates) ==
    triggerRefresh([h EXCEPT !.ref.values = Merge(@, updates.map),
                             !.ref.keys = KeysMerge(@, updates.keys),
                             !.ref.errors = ClearUpdated(@, DOMAIN updates.map)])

setError(h, name, error) ==
    triggerRefresh([h EXCEPT !.ref.errors = Put(@, name, error)])

setErrors(h, updates) ==
    triggerRefresh([h EXCEPT !.ref.errors = Merge(@, updates)])

setRules(h, name, rules) ==
    triggerRefresh([h EXCEPT !.ref.rules = Put(@, name, rules)])

setTouched(h, name, touched) ==
    triggerRefresh([h EXCEPT !.ref.touched = Put(@, name, touched)])

\* fields is not read: every field is reset
reset(h, init, fields) ==
    triggerRefresh([h EXCEPT !.ref.values = init.map,
                             !.ref.keys = init.keys,
                             !.ref.errors = EmptyObject,
                             !.ref.touched = EmptyObject,
                             !.ref.isValidating = EmptyObject])

\* fields is a set of names, or (omitted) the keys of errors
resetErrors(h, fields) ==
    triggerRefresh([h EXCEPT !.ref.errors =
        [x \in (DOMAIN @) \cup fields |-> IF x \in fields THEN NoError ELSE @[x]]])

\* an isValid that takes every entry of errors for an error
isValid_KeysOnly(ref) == DOMAIN ref.errors = {}

isValid(ref) == \A x \in DOMAIN ref.errors : ref.errors[x] = NoError

getValues(ref) == ref.values

getErrors(ref) == ref.errors

\* Object.assign(new Error(rule.errorMessage || 'Validation failed'), {field, value})
FieldError(rule, name, value) ==
    [field |-> name, value |-> value,
     message |-> IF rule.message = Undefined \/ rule.message = ""
                 THEN "Validation failed" ELSE rule.message]

\* what a rejected call carries when a check threw
Thrown == [thrown |-> TRUE]

NoReason == [none |-> TRUE]

\* the locals of a submitForm call: what it called and what it returned
NoSubmit ==
    [stage |-> "none", formErrors |-> EmptyObject, onSuccess |-> FALSE,
     onError |-> FALSE, onErrorErrors |-> EmptyObject, returned |-> ""]

IdleCall ==
    [kind |-> "none", omitted |-> FALSE, names |-> << >>, fields |-> << >>, k |-> 0, pc |-> "idle",
     name |-> "", value |-> Undefined, rules |-> << >>, i |-> 0, result |-> "",
     fieldOutcome |-> "", validatedValues |-> EmptyObject,
     outcome |-> "", reason |-> NoReason, invoked |-> {}, pending |-> {},
     submit |-> NoSubmit]

\* a state of the hook together with one call's locals
HC(h, c) == [h |-> h, c |-> c]

\* validateField's promise is settled: a direct call is over, validate awaits it
vfSettled(h, c, how, reason) ==
    IF c.kind = "validateField"
    THEN HC(h, [c EXCEPT !.pc = "done", !.outcome = how, !.reason = reason,
                         !.result = "", !.rules = << >>, !.i = 0])
    ELSE HC(h, [c EXCEPT !.pc = "resume", !.fieldOutcome = how, !.reason = reason,
                         !.result = "", !.rules = << >>, !.i = 0])

\* all rules passed: clear the error and the flag, return value
vfPass(h, c) ==
    vfSettled(
        triggerRefresh([h EXCEPT !.ref.errors = Put(@, c.name, NoError),
                                 !.ref.isValidating = Put(@, c.name, FALSE)]),
        c, "resolved", NoReason)

\* a validateField that reports the last rule of the chain when a rule fails
vfFail_LastRule(h, c) ==
    LET error == FieldError(c.rules[Len(c.rules)], c.name, c.value) IN
    vfSettled([h EXCEPT !.ref.errors = Put(@, c.name, error)], c, "rejected", error)

\* a rule returned false: store the error and return Promise.reject(error); the
\* rejected promise is returned, not awaited, so the catch block does not run
vfFail(h, c) ==
    LET error == FieldError(c.rules[c.i], c.name, c.value) IN
    vfSettled([h EXCEPT !.ref.errors = Put(@, c.name, error)], c, "rejected", error)

\* the awaited check threw: the catch block clears the flag and rethrows
vfCatch(h, c) ==
    vfSettled(triggerRefresh([h EXCEPT !.ref.isValidating = Put(@, c.name, FALSE)]),
              c, "rejected", Thrown)

\* a loop that calls passWhen of the next rule as well, without awaiting the first
vfLoop_NoAwait(h, c) ==
    IF c.i > Len(c.rules)
    THEN vfPass(h, c)
    ELSE HC(h, [c EXCEPT !.pc = "check",
                         !.result = Check(c.rules[c.i], c.value),
                         !.invoked = @ \cup {<<c.name, c.i>>},
                         !.pending = @ \cup {<<c.name, c.i>>}
                                       \cup {<<c.name, j>> : j \in {c.i + 1} \cap (1..Len(c.rules))}])

\* the for loop at rule c.i: call passWhen(value) and await it, or leave the loop
vfLoop(h, c) ==
    IF c.i > Len(c.rules)
    THEN vfPass(h, c)
    ELSE HC(h, [c EXCEPT !.pc = "check",
                         !.result = Check(c.rules[c.i], c.value),
                         !.invoked = @ \cup {<<c.name, c.i>>},
                         !.pending = @ \cup {<<c.name, c.i>>}])

\* a validateField that does not raise the field's isValidating flag
validateField_NoFlag(h, c, name) ==
    vfLoop(triggerRefresh(h),
           [c EXCEPT !.name = name,
                     !.value = Get(h.ref.values, name),
                     !.rules = GetRules(h.ref.rules, name),
                     !.i = 1])

\* validateField(name) up to its first await
validateField(h, c, name) ==
    vfLoop(triggerRefresh([h EXCEPT !.ref.isValidating = Put(@, name, TRUE)]),
           [c EXCEPT !.name = name,
                     !.value = Get(h.ref.values, name),
                     !.rules = GetRules(h.ref.rules, name),
                     !.i = 1])

\* the awaited check settles: it is no longer pending
vfResume(h, c0) ==
    LET c == [c0 EXCEPT !.pending = @ \ {<<c0.name, c0.i>>}] IN
    CASE c.result = "true" -> vfLoop(h, [c EXCEPT !.i = @ + 1])
      [] c.result = "false" -> vfFail(h, c)
      [] c.result = "throw" -> vfCatch(h, c)

\* validate's for loop at field c.k: call validateField and await it, or return
validateLoop(h, c) ==
    IF c.k > Len(c.fields)
    THEN HC(h, [c EXCEPT !.pc = "done", !.outcome = "resolved",
                         !.name = "", !.value = Undefined])
    ELSE validateField(h, c, c.fields[c.k])

\* a validate that takes an empty name list for no list at all
validate_EmptyMeansAll(h, c, omitted, names) ==
    validateLoop(h, [c EXCEPT !.kind = "validate", !.omitted = omitted, !.names = names,
                              !.fields = IF omitted \/ names = << >> THEN h.ref.keys ELSE names,
                              !.k = 1, !.outcome = "pending"])

\* validate(names) up to its first await; omitted: no argument was given
validate(h, c, omitted, names) ==
    validateLoop(h, [c EXCEPT !.kind = "validate", !.omitted = omitted, !.names = names,
                              !.fields = IF omitted THEN h.ref.keys ELSE names,
                              !.k = 1, !.outcome = "pending"])

\* the awaited validateField settled: record its value, or swallow its error
validateResume(h, c) ==
    validateLoop(h, [c EXCEPT !.validatedValues =
                                  IF c.fieldOutcome = "resolved"
                                  THEN Put(@, c.name, c.value) ELSE @,
                              !.fieldOutcome = "", !.reason = NoReason,
                              !.k = @ + 1])

(* --------------------------- submitForm ------------------------------- *)

\* submitForm(form, onSuccess, onError) up to its await of form.validate(); form is
\* the object the caller holds, whose errors are those of the render it came from
submitForm(h, c) ==
    validate(h, [c EXCEPT !.submit = [NoSubmit EXCEPT !.stage = "validate",
                                                      !.formErrors = h.ref.errors]],
             TRUE, << >>)

\* Object.fromEntries(Object.entries(form.errors).filter(([, error]) => error !== undefined))
NonAbsent(errors) == [x \in {y \in DOMAIN errors : errors[y] # NoError} |-> errors[x]]

\* the catch block: onError, if given, gets the non-absent errors; null is returned
submitCatch(c, onErrorGiven) ==
    [c EXCEPT !.submit.stage = "done",
              !.submit.onError = onErrorGiven,
              !.submit.onErrorErrors = IF onErrorGiven THEN NonAbsent(c.submit.formErrors)
                                       ELSE EmptyObject,
              !.submit.returned = "null"]

\* form.validate() has settled: on a resolve onSuccess(validatedValues) is called and
\* awaited, and its result returned; a rejection of either goes to the catch block
submitResume(c, onSuccessThrows, onErrorGiven) ==
    IF c.outcome # "resolved"
    THEN submitCatch(c, onErrorGiven)
    ELSE IF onSuccessThrows
         THEN submitCatch([c EXCEPT !.submit.onSuccess = TRUE], onErrorGiven)
         ELSE [c EXCEPT !.submit.stage = "done", !.submit.onSuccess = TRUE,
                        !.submit.returned = "result"]

(* -------------- useCreateForm: the field binding layer ---------------- *)

\* a FormItem that runs its mount effect without looking at the context
FormItem_NoGuard(h, enclosed, name, initialValue, rules) ==
    [thrown |-> FALSE,
     h |-> setRules(IF initialValue # Undefined THEN setValue(h, name, initialValue) ELSE h,
                    name, rules),
     log |-> (IF initialValue # Undefined THEN <<"setValue">> ELSE << >>) \o <<"setRules">>]

\* FormItem is rendered and mounted: useContext(FormContext) is null when no Form
\* encloses it, and then it throws before its effect is registered; else the effect
\* writes the initial value (when given) and the rules
FormItem(h, enclosed, name, initialValue, rules) ==
    IF ~enclosed
    THEN [thrown |-> TRUE, h |-> h, log |-> << >>]
    ELSE [thrown |-> FALSE,
          h |-> setRules(IF initialValue # Undefined THEN setValue(h, name, initialValue) ELSE h,
                         name, rules),
          log |-> (IF initialValue # Undefined THEN <<"setValue">> ELSE << >>) \o <<"setRules">>]

\* useFormItem(): throws when no FormItem encloses the caller, else returns the context
useFormItem(enclosed) == [thrown |-> ~enclosed]

\* useForm() of form-2.tsx: throws when no Form encloses the caller, else returns the form
useForm(enclosed) == [thrown |-> ~enclosed]

(* ------------------- useCreateForm: the actions ----------------------- *)

InitialValueChoices ==
    { [keys |-> << >>, map |-> EmptyObject],
      [keys |-> <<"email">>, map |-> ("email" :> "")] }

\* an error the consumer sets by hand
CustomError(name) == [field |-> name, value |-> Undefined, message |-> "custom"]

\* objects passed to setValues
ValueUpdates ==
    { [keys |-> <<"username", "email">>, map |-> ("username" :> "" @@ "email" :> "a@b.com")] }

\* objects passed to setErrors
ErrorUpdates ==
    { ("email" :> CustomError("email") @@ "username" :> NoError) }

\* the consumer may still act
CanAct2 == refreshTrigger < MaxRefresh

\* the slot of the next call
FreeCall(cs, c) == cs[c].pc = "idle" /\ \A d \in CallIds : d < c => cs[d].pc # "idle"

\* a step of useCreateForm's side that leaves the mounted FormItems items
CommitItems2(h, op, items) ==
    /\ formStateRef' = h.ref
    /\ refreshTrigger' = h.refresh
    /\ lastOp' = op
    /\ formItems' = items
    /\ UNCHANGED <<initialValues, vars3, varsLoading>>

Commit2(h, op) == CommitItems2(h, op, formItems)

CommitCall2(hc, c, op) ==
    /\ calls' = [calls EXCEPT ![c] = hc.c]
    /\ Commit2(hc.h, op)

SetValue ==
    \E name \in Fields, value \in Values :
        /\ CanAct2
        /\ Commit2(setValue(Hook, name, value), Op("setValue", name, value, FALSE, 0))
        /\ UNCHANGED calls

SetValues ==
    \E updates \in ValueUpdates :
        /\ CanAct2
        /\ Commit2(setValues(Hook, updates), Op("setValues", "", "", FALSE, 0))
        /\ UNCHANGED calls

SetError ==
    \E name \in Fields : \E error \in {CustomError(name)} :
        /\ CanAct2
        /\ Commit2(setError(Hook, name, error), Op("setError", name, "", error # NoError, 0))
        /\ UNCHANGED calls

SetErrors ==
    \E updates \in ErrorUpdates :
        /\ CanAct2
        /\ Commit2(setErrors(Hook, updates), Op("setErrors", "", "", FALSE, 0))
        /\ UNCHANGED calls

SetRules ==
    \E name \in Fields : \E rules \in RuleChains(name) :
        /\ CanAct2
        /\ Commit2(setRules(Hook, name, rules), Op("setRules", name, "", FALSE, 0))
        /\ UNCHANGED calls

SetTouched ==
    \E name \in {"username"}, touched \in {TRUE} :
        /\ CanAct2
        /\ Commit2(setTouched(Hook, name, touched), Op("setTouched", name, "", touched, 0))
        /\ UNCHANGED calls

\* reset() and reset([name])
Reset ==
    \E fields \in {{}, {"email"}} :
        /\ CanAct2
        /\ Commit2(reset(Hook, initialValues, fields),
                   IF fields = {} THEN Op("reset", "", "", FALSE, 0)
                   ELSE Op("reset", CHOOSE name \in fields : TRUE, "", TRUE, 0))
        /\ UNCHANGED calls

\* resetErrors() and resetErrors([name])
ResetErrors ==
    \/ /\ CanAct2
       /\ Commit2(resetErrors(Hook, DOMAIN formStateRef.errors), Op("resetErrors", "", "", FALSE, 0))
       /\ UNCHANGED calls
    \/ \E name \in {"email"} :
        /\ CanAct2
        /\ Commit2(resetErrors(Hook, {name}), Op("resetErrors", name, "", TRUE, 0))
        /\ UNCHANGED calls

\* validate() and validate(names)
Validate ==
    \E c \in CallIds :
        /\ CanAct2
        /\ FreeCall(calls, c)
        /\ \/ CommitCall2(validate(Hook, calls[c], TRUE, << >>), c, Op("validate", "", "", FALSE, c))
           \/ \E names \in NameLists :
                CommitCall2(validate(Hook, calls[c], FALSE, names), c, Op("validate", "", "", TRUE, c))

\* validateField(name), as a field binding's validate calls it
ValidateField ==
    \E c \in CallIds, name \in Fields :
        /\ CanAct2
        /\ FreeCall(calls, c)
        /\ CommitCall2(validateField(Hook, [calls[c] EXCEPT !.kind = "validateField",
                                                          !.outcome = "pending"], name),
                       c, Op("validateField", name, "", FALSE, c))

\* the check a call awaits settles, and validateField runs on to its next await
CheckSettles ==
    \E c \in CallIds :
        /\ calls[c].pc = "check"
        /\ CommitCall2(vfResume(Hook, calls[c]), c, Op("checkSettles", calls[c].name, "", FALSE, c))

\* validate runs on after the validateField it awaited
ValidateResumes ==
    \E c \in CallIds :
        /\ calls[c].pc = "resume"
        /\ CommitCall2(validateResume(Hook, calls[c]), c, Op("validateResumes", calls[c].name, "", FALSE, c))

\* a FormItem is mounted, inside a Form or not
Mounted(name) == \E item \in formItems : item.name = name

RenderFormItem ==
    \E enclosed \in BOOLEAN, name \in {"email"}, initialValue \in {Undefined, ""} :
        \E rules \in {<<required>>} :
            LET r == FormItem(Hook, enclosed, name, initialValue, rules) IN
            /\ CanAct2
            /\ ~Mounted(name)
            /\ CommitItems2(r.h, Render("FormItem", name, initialValue, enclosed, r.thrown, r.log),
                            IF r.thrown THEN formItems
                            ELSE formItems \cup {[name |-> name, destroyWhenUnmount |-> FALSE]})
            /\ UNCHANGED calls

\* a mounted FormItem unmounts: its effect has no cleanup
UnmountFormItem ==
    \E item \in formItems :
        /\ CommitItems2(Hook, Op("FormItem.unmount", item.name, "", FALSE, 0), formItems \ {item})
        /\ UNCHANGED calls

\* a component calls useFormItem(), inside a FormItem or not
UseFormItem ==
    \E enclosed \in BOOLEAN :
        /\ Commit2(Hook, Render("useFormItem", "", "", enclosed, useFormItem(enclosed).thrown, << >>))
        /\ UNCHANGED calls

\* a component calls useForm(), inside a Form or not
UseForm ==
    \E enclosed \in BOOLEAN :
        /\ Commit2(Hook, Render("useForm", "", "", enclosed, useForm(enclosed).thrown, << >>))
        /\ UNCHANGED calls

\* submitForm(form, onSuccess, onError) is called
SubmitForm ==
    \E c \in CallIds :
        /\ CanAct2
        /\ FreeCall(calls, c)
        /\ CommitCall2(submitForm(Hook, calls[c]), c, Op("submitForm", "", "", FALSE, c))

\* the form.validate() that submitForm awaits has settled
SubmitResumes ==
    \E c \in CallIds, onSuccessThrows \in BOOLEAN, onErrorGiven \in BOOLEAN :
        /\ calls[c].submit.stage = "validate"
        /\ calls[c].pc = "done"
        /\ CommitCall2(HC(Hook, submitResume(calls[c], onSuccessThrows, onErrorGiven)), c,
                       Op("submitResumes", "", "", onSuccessThrows, c))

Next2 ==
    \/ SetValue \/ SetValues \/ SetError \/ SetErrors \/ SetRules \/ SetTouched
    \/ Reset \/ ResetErrors \/ Validate \/ ValidateField
    \/ CheckSettles \/ ValidateResumes

(* ========================= useForm (form-3.tsx) ======================== *)

\* new FormFieldError(message): an Error's message is "" when none is given
FormFieldError(message) == [message |-> IF message = Undefined THEN "" ELSE message]

IdleCall3 ==
    [pc |-> "idle", omitted |-> FALSE, lastNames |-> << >>, k |-> 0,
     name |-> "", formFieldValue |-> Undefined, formFieldRules |-> << >>, i |-> 0,
     result |-> "", formFields |-> EmptyObject,
     formFieldsValue |-> EmptyObject, formFieldsRules |-> EmptyObject,
     formFieldsError |-> EmptyObject,
     alias |-> [values |-> FALSE, rules |-> FALSE, errors |-> FALSE],
     outcome |-> "", reason |-> NoReason, invoked |-> {}, pending |-> {}]

\* the hook's mutable state with the running calls, whose locals formFieldsValue,
\* formFieldsRules and formFieldsError hold the objects the refs held when validate
\* started: alias tells whether a ref still holds that same object
Hook3 ==
    [values |-> formFieldsValueRef, errors |-> formFieldsErrorRef,
     rules |-> formFieldsRulesRef, refresh |-> refresh, calls |-> calls3]

onRefresh(h) == [h EXCEPT !.refresh = (@ + 1) % RefreshModulus3]

\* ref.current = { ... }: the ref holds a new object, running calls keep the old one
Detach(cs, which) == [c \in DOMAIN cs |-> [cs[c] EXCEPT !.alias[which] = FALSE]]

\* Reflect.deleteProperty(ref.current, name): the object is changed in place, also
\* for the running calls that hold it
DeleteInPlace(cs, name) ==
    [c \in DOMAIN cs |->
        [cs[c] EXCEPT
            !.formFieldsValue = IF cs[c].alias.values THEN Delete(@, name) ELSE @,
            !.formFieldsRules = IF cs[c].alias.rules THEN Delete(@, name) ELSE @,
            !.formFieldsError = IF cs[c].alias.errors THEN Delete(@, name) ELSE @]]

onUpdateFormFieldError(h, name, error) ==
    onRefresh([h EXCEPT !.errors = Put(@, name, error),
                        !.calls = Detach(@, "errors")])

\* ignoredRules is declared by I_Form and not taken by the function
onUpdateFormField(h, name, value, ignoredRules) ==
    onRefresh(onUpdateFormFieldError(
        [h EXCEPT !.values = Put(@, name, value), !.calls = Detach(@, "values")],
        name, NoError))

\* a delete that leaves the field's rules registered
onDeleteFormField_KeepRules(h, name) ==
    onRefresh([h EXCEPT !.values = Delete(@, name),
                        !.errors = Delete(@, name),
                        !.calls = DeleteInPlace(@, name)])

onDeleteFormField(h, name) ==
    onRefresh([h EXCEPT !.values = Delete(@, name),
                        !.errors = Delete(@, name),
                        !.rules = Delete(@, name),
                        !.calls = DeleteInPlace(@, name)])

onUpdateFormFieldRules(h, name, rules) ==
    onUpdateFormFieldError(
        [h EXCEPT !.rules = Put(@, name, rules), !.calls = Detach(@, "rules")],
        name, FormFieldError(Undefined))

\* validate has settled: its locals are gone
Settled3(c, how, reason) ==
    [IdleCall3 EXCEPT !.pc = "done", !.omitted = c.omitted, !.lastNames = c.lastNames,
                      !.formFields = IF how = "resolved" THEN c.formFields ELSE EmptyObject,
                      !.outcome = how, !.reason = reason, !.invoked = c.invoked,
                      !.pending = c.pending]

HasRules3(c, j) == Len(GetRules(c.formFieldsRules, c.lastNames[j])) > 0

\* call rules.validate(formFieldValue) of rule c.i and await it
Invoke3(c) ==
    [c EXCEPT !.pc = "check",
              !.result = Check(c.formFieldRules[c.i], c.formFieldValue),
              !.invoked = @ \cup {<<c.name, c.i>>},
              !.pending = @ \cup {<<c.name, c.i>>}]

\* the outer for loop from name c.k on: names without rules are skipped
validateLoop3(c) ==
    IF \E j \in c.k..Len(c.lastNames) : HasRules3(c, j)
    THEN LET j == CHOOSE j \in c.k..Len(c.lastNames) :
                      HasRules3(c, j) /\ \A m \in c.k..(j - 1) : ~HasRules3(c, m)
             name == c.lastNames[j]
         IN Invoke3([c EXCEPT !.k = j, !.name = name,
                              !.formFieldValue = Get(c.formFieldsValue, name),
                              !.formFieldRules = GetRules(c.formFieldsRules, name),
                              !.i = 1])
    ELSE Settled3(c, "resolved", NoReason)

\* names = [] is the parameter's default, so names ?? Object.keys(formFieldsValue)
\* is names
LastNames3(omitted, names, formFieldsValue) == IF omitted THEN << >> ELSE names

\* validate(names) up to its first await
validate3(h, id, omitted, names) ==
    [h EXCEPT !.calls[id] =
        validateLoop3([IdleCall3 EXCEPT
            !.omitted = omitted,
            !.lastNames = LastNames3(omitted, names, h.values),
            !.k = 1,
            !.formFieldsValue = h.values,
            !.formFieldsRules = h.rules,
            !.formFieldsError = h.errors,
            !.alias = [values |-> TRUE, rules |-> TRUE, errors |-> TRUE],
            !.outcome = "pending"])]

\* the failing rule's error is stored into a copy of the errors object validate read
\* when it started
validateFail3(h, id) ==
    LET c == h.calls[id]
        error == FormFieldError(c.formFieldRules[c.i].message)
    IN onRefresh([h EXCEPT !.errors = Put(c.formFieldsError, c.name, error),
                           !.calls = [Detach(@, "errors") EXCEPT
                                         ![id] = Settled3(c, "rejected", error)]])

\* the awaited check settles: it is no longer pending
validateResume3(h0, id) ==
    LET h == [h0 EXCEPT !.calls[id].pending = @ \ {<<h0.calls[id].name, h0.calls[id].i>>}]
        c == h.calls[id]
    IN
    CASE c.result = "false" -> validateFail3(h, id)
      [] c.result = "throw" -> [h EXCEPT !.calls[id] = Settled3(c, "rejected", Thrown)]
      [] c.result = "true" ->
            LET d == [c EXCEPT !.formFields = Put(@, c.name, c.formFieldValue)] IN
            [h EXCEPT !.calls[id] =
                IF c.i < Len(c.formFieldRules)
                THEN Invoke3([d EXCEPT !.i = @ + 1])
                ELSE validateLoop3([d EXCEPT !.k = @ + 1])]

\* FormItem of form-3.tsx is rendered and mounted: it throws when no Form encloses
\* it, else its effect registers the rules and then writes the initial value
FormItem3(h, enclosed, name, initialValue, rulesWhenValidate) ==
    IF ~enclosed
    THEN [thrown |-> TRUE, h |-> h, log |-> << >>]
    ELSE [thrown |-> FALSE,
          h |-> onUpdateFormField(onUpdateFormFieldRules(h, name, rulesWhenValidate),
                                  name, initialValue, FALSE),
          log |-> <<"onUpdateFormFieldRules", "onUpdateFormField">>]

\* a cleanup that deletes the field whatever destroyWhenUnmount is
FormItemCleanup3_Always(h, name, destroyWhenUnmount) == onDeleteFormField(h, name)

\* the cleanup of FormItem's effect, run when the FormItem unmounts
FormItemCleanup3(h, name, destroyWhenUnmount) ==
    IF ~destroyWhenUnmount THEN h ELSE onDeleteFormField(h, name)

(* ----------------------- useForm: the actions -------------------------- *)

CanAct3 == refresh < MaxRefresh

\* a step of useForm's side that leaves the mounted FormItems items
CommitItems3(h, op, items) ==
    /\ formFieldsValueRef' = h.values
    /\ formFieldsErrorRef' = h.errors
    /\ formFieldsRulesRef' = h.rules
    /\ refresh' = h.refresh
    /\ calls3' = h.calls
    /\ lastOp' = op
    /\ formItems' = items
    /\ UNCHANGED <<vars2, varsLoading>>

Commit3(h, op) == CommitItems3(h, op, formItems)

OnUpdateFormField ==
    \E name \in Fields, value \in Values, ignoredRules \in BOOLEAN :
        /\ CanAct3
        /\ Commit3(onUpdateFormField(Hook3, name, value, ignoredRules),
                   Op("onUpdateFormField", name, value, ignoredRules, 0))

OnDeleteFormField ==
    \E name \in Fields :
        /\ CanAct3
        /\ Commit3(onDeleteFormField(Hook3, name), Op("onDeleteFormField", name, "", FALSE, 0))

OnUpdateFormFieldError ==
    \E name \in Fields : \E error \in {FormFieldError("custom")} :
        /\ CanAct3
        /\ Commit3(onUpdateFormFieldError(Hook3, name, error),
                   Op("onUpdateFormFieldError", name, "", error # NoError, 0))

OnUpdateFormFieldRules ==
    \E name \in Fields : \E rules \in RuleChains(name) :
        /\ CanAct3
        /\ Commit3(onUpdateFormFieldRules(Hook3, name, rules),
                   Op("onUpdateFormFieldRules", name, "", FALSE, 0))

\* validate() and validate(names)
Validate3 ==
    \E c \in CallIds :
        /\ CanAct3
        /\ FreeCall(calls3, c)
        /\ \/ Commit3(validate3(Hook3, c, TRUE, << >>), Op("validate", "", "", FALSE, c))
           \/ \E names \in NameLists :
                Commit3(validate3(Hook3, c, FALSE, names), Op("validate", "", "", TRUE, c))

\* the check a call awaits settles, and validate runs on to its next await
CheckSettles3 ==
    \E c \in CallIds :
        /\ calls3[c].pc = "check"
        /\ Commit3(validateResume3(Hook3, c), Op("checkSettles", calls3[c].name, "", FALSE, c))

\* a FormItem is mounted, inside a Form or not
RenderFormItem3 ==
    \E enclosed \in BOOLEAN, name \in {"email"}, initialValue \in {Undefined, ""} :
        \E rules \in {<<required>>}, destroyWhenUnmount \in BOOLEAN :
            LET r == FormItem3(Hook3, enclosed, name, initialValue, rules) IN
            /\ CanAct3
            /\ ~Mounted(name)
            /\ CommitItems3(r.h, Render("FormItem3", name, initialValue, enclosed, r.thrown, r.log),
                            IF r.thrown THEN formItems
                            ELSE formItems \cup {[name |-> name,
                                                  destroyWhenUnmount |-> destroyWhenUnmount]})

\* a mounted FormItem unmounts: the cleanup of its effect runs
UnmountFormItem3 ==
    \E item \in formItems :
        CommitItems3(FormItemCleanup3(Hook3, item.name, item.destroyWhenUnmount),
                     Op("FormItem3.unmount", item.name, "", item.destroyWhenUnmount, 0),
                     formItems \ {item})

Next3 ==
    \/ OnUpdateFormField \/ OnDeleteFormField \/ OnUpdateFormFieldError
    \/ OnUpdateFormFieldRules \/ Validate3 \/ CheckSettles3

(* ================ Loading (loading/loading.component.tsx) ============== *)

\* the component's state, as the functions below take and return it
LoadingState == [loadingCount |-> loadingCount, loading |-> loading, closeTimer |-> closeTimer]

openLoading(l) == [l EXCEPT !.loadingCount = @ + 1]

\* a closeLoading that does not stop at 0
closeLoading_NoClamp(l) == [l EXCEPT !.loadingCount = @ - 1]

\* Math.max(0, pre - 1)
closeLoading(l) == [l EXCEPT !.loadingCount = IF @ - 1 > 0 THEN @ - 1 ELSE 0]

clearCloseTimer(l) == [l EXCEPT !.closeTimer = FALSE]

startCloseTimer(l) == [clearCloseTimer(l) EXCEPT !.closeTimer = TRUE]

\* the effect of a render whose loadingCount is count
onLoadingCountChange(l, count) ==
    LET a == IF count = 0 THEN startCloseTimer(l) ELSE l IN
    IF count > 0 THEN [clearCloseTimer(a) EXCEPT !.loading = TRUE] ELSE a

\* the timer's callback
closeTimerFires(l) == [l EXCEPT !.loading = FALSE, !.closeTimer = FALSE]

\* DeviceEventEmitter.emit(buildOpenName(id)): openLoading runs if it is subscribed
open(l, subscribed) == IF subscribed THEN openLoading(l) ELSE l

\* DeviceEventEmitter.emit(buildCloseName(id)): closeLoading runs if it is subscribed
close(l, subscribed) == IF subscribed THEN closeLoading(l) ELSE l

(* ----------------------- Loading: the actions -------------------------- *)

CommitLoading(l) ==
    /\ loadingCount' = l.loadingCount
    /\ loading' = l.loading
    /\ closeTimer' = l.closeTimer
    /\ UNCHANGED <<vars2, vars3, formItems, lastOp>>

\* a function wrapped by addLoading is called: open(id), then fn runs
AddLoadingCall ==
    \E w \in 1..MaxWrapped :
        /\ wrapped[w] = "idle"
        /\ wrapped' = [wrapped EXCEPT ![w] = "running"]
        /\ CommitLoading(open(LoadingState, listening))
        /\ UNCHANGED <<listening, rendered, effectPending, direct>>

\* fn's promise resolves or rejects: finally close(id)
AddLoadingSettles ==
    \E w \in 1..MaxWrapped, how \in {"resolved", "rejected"} :
        /\ wrapped[w] = "running"
        /\ wrapped' = [wrapped EXCEPT ![w] = how]
        /\ CommitLoading(close(LoadingState, listening))
        /\ UNCHANGED <<listening, rendered, effectPending, direct>>

\* Loading.open(id), called directly
LoadingOpen ==
    /\ direct.events < MaxDirect
    /\ direct' = [unclosed |-> direct.unclosed + 1, events |-> direct.events + 1]
    /\ CommitLoading(open(LoadingState, listening))
    /\ UNCHANGED <<listening, rendered, effectPending, wrapped>>

\* Loading.close(id), called directly
LoadingClose ==
    /\ direct.events < MaxDirect
    /\ direct' = [unclosed |-> IF direct.unclosed > 0 THEN direct.unclosed - 1 ELSE 0,
                  events |-> direct.events + 1]
    /\ CommitLoading(close(LoadingState, listening))
    /\ UNCHANGED <<listening, rendered, effectPending, wrapped>>

\* React renders the component with a changed loadingCount
LoadingRenders ==
    /\ ~effectPending
    /\ loadingCount # rendered
    /\ rendered' = loadingCount
    /\ effectPending' = TRUE
    /\ CommitLoading(LoadingState)
    /\ UNCHANGED <<listening, wrapped, direct>>

\* the effects of the last render run: addListener on mount, and onLoadingCountChange
LoadingEffects ==
    /\ effectPending
    /\ effectPending' = FALSE
    /\ listening' = TRUE
    /\ CommitLoading(onLoadingCountChange(LoadingState, rendered))
    /\ UNCHANGED <<rendered, wrapped, direct>>

\* minDuration has passed since startCloseTimer
CloseTimerFires ==
    /\ closeTimer
    /\ CommitLoading(closeTimerFires(LoadingState))
    /\ UNCHANGED <<listening, rendered, effectPending, wrapped, direct>>

NextLoading ==
    \/ AddLoadingCall \/ AddLoadingSettles \/ LoadingOpen \/ LoadingClose
    \/ LoadingRenders \/ LoadingEffects \/ CloseTimerFires

(* --------------------------- specifications ---------------------------- *)

NoOp == Op("", "", "", FALSE, 0)

\* a form of useCreateForm is created with some initialValues; no useForm is mounted
InitCreateForm ==
    /\ initialValues \in InitialValueChoices
    /\ formStateRef = [values |-> initialValues.map, keys |-> initialValues.keys,
                       errors |-> EmptyObject, rules |-> EmptyObject,
                       isValidating |-> EmptyObject, touched |-> EmptyObject]
    /\ refreshTrigger = 0
    /\ calls = [c \in CallIds |-> IdleCall]
    /\ formFieldsValueRef = EmptyObject
    /\ formFieldsErrorRef = EmptyObject
    /\ formFieldsRulesRef = EmptyObject
    /\ refresh = 0
    /\ calls3 = [c \in CallIds |-> IdleCall3]
    /\ formItems = {}
    /\ loadingCount = 0
    /\ loading = FALSE
    /\ closeTimer = FALSE
    /\ listening = FALSE
    /\ rendered = 0
    /\ effectPending = TRUE
    /\ wrapped = [w \in 1..MaxWrapped |-> "idle"]
    /\ direct = [unclosed |-> 0, events |-> 0]
    /\ lastOp = NoOp

\* a form of useForm is mounted; no useCreateForm is used
InitForm ==
    /\ initialValues = [keys |-> << >>, map |-> EmptyObject]
    /\ formStateRef = [values |-> EmptyObject, keys |-> << >>,
                       errors |-> EmptyObject, rules |-> EmptyObject,
                       isValidating |-> EmptyObject, touched |-> EmptyObject]
    /\ refreshTrigger = 0
    /\ calls = [c \in CallIds |-> IdleCall]
    /\ formFieldsValueRef = EmptyObject
    /\ formFieldsErrorRef = EmptyObject
    /\ formFieldsRulesRef = EmptyObject
    /\ refresh = 0
    /\ calls3 = [c \in CallIds |-> IdleCall3]
    /\ formItems = {}
    /\ loadingCount = 0
    /\ loading = FALSE
    /\ closeTimer = FALSE
    /\ listening = FALSE
    /\ rendered = 0
    /\ effectPending = TRUE
    /\ wrapped = [w \in 1..MaxWrapped |-> "idle"]
    /\ direct = [unclosed |-> 0, events |-> 0]
    /\ lastOp = NoOp

SpecCreateForm == InitCreateForm /\ [][Next2]_vars

SpecForm == InitForm /\ [][Next3]_vars

\* one form, of either variant: the first operation decides which hook is in use
Fresh2 ==
    /\ initialValues.keys = << >>
    /\ refreshTrigger = 0
    /\ \A c \in CallIds : calls[c].pc = "idle"

Fresh3 ==
    /\ refresh = 0
    /\ \A c \in CallIds : calls3[c].pc = "idle"

Next ==
    \/ Fresh3 /\ Next2
    \/ Fresh2 /\ Next3

Spec == InitCreateForm /\ [][Next]_vars

\* the field binding layer over one form of either variant: the consumer writes
\* values and errors, and components are rendered inside or outside a Form
NextBinding ==
    \/ Fresh3 /\ (\/ SetValue \/ SetError \/ RenderFormItem \/ UnmountFormItem
                  \/ UseFormItem \/ UseForm
                  \/ Validate \/ CheckSettles \/ ValidateResumes
                  \/ SubmitForm \/ SubmitResumes)
    \/ Fresh2 /\ (\/ OnUpdateFormField \/ OnUpdateFormFieldError
                  \/ RenderFormItem3 \/ UnmountFormItem3)

SpecBinding == InitCreateForm /\ [][NextBinding]_vars

\* a Loading component has rendered for the first time, next to an idle form
SpecLoading == InitForm /\ [][NextLoading]_vars

\* React runs a pending render and its effects, and a started timer fires
FairLoading ==
    /\ SpecLoading
    /\ WF_vars(LoadingRenders) /\ WF_vars(LoadingEffects) /\ WF_vars(CloseTimerFires)

(* ============================== claims ================================= *)

\* call c of useCreateForm awaits a rule check of field f
Awaiting(c, f) == calls[c].pc = "check" /\ calls[c].name = f

\* C1: when a rule of a field returns false during validate() called with no
\* arguments, validate rejects with that rule's error, and the errors mapping holds
\* that error for the field.
C1_ValidateRejectsOnFailingRule ==
    [][\A c \in CallIds :
          (/\ calls[c].kind = "validate" /\ calls[c].omitted
           /\ calls[c].pc = "resume" /\ calls[c].fieldOutcome = "rejected"
           /\ calls[c].reason # Thrown
           /\ calls'[c] # calls[c])
          => /\ calls'[c].pc = "done"
             /\ calls'[c].outcome = "rejected"
             /\ calls'[c].reason = calls[c].reason
             /\ GetError(formStateRef'.errors, calls[c].name) = calls[c].reason]_vars

\* C2: in validate(["email", "username"]) with email's rules [alwaysPass,
\* alwaysFail("msg")], once email's failing rule has been invoked no rule of username
\* is ever invoked by the call, and the call ends rejected with the message "msg".
C2_FailingFieldStopsBatch ==
    \A c \in CallIds :
        (/\ calls[c].kind = "validate" /\ ~calls[c].omitted
         /\ calls[c].fields = <<"email", "username">>
         /\ <<"email", 2>> \in calls[c].invoked)
        => /\ \A i \in 1..2 : <<"username", i>> \notin calls[c].invoked
           /\ calls[c].pc = "done" =>
                 /\ calls[c].outcome = "rejected"
                 /\ calls[c].reason # Thrown
                 /\ calls[c].reason.message = "msg"

\* C3: isValidating[f] is false whenever no validation pass of f is in flight,
\* however the last pass ended (all rules passed, a rule returned false, a check threw).
C3_ValidatingClearedAfterPass ==
    \A f \in Fields :
        (\A c \in CallIds : ~Awaiting(c, f)) => ~GetFlag(formStateRef.isValidating, f)

C5_RequiredEmailScenario ==
    (/\ initialValues.map = ("email" :> "")
     /\ formStateRef.rules = ("email" :> <<required>>)
     /\ calls[1].kind = "validate" /\ calls[1].omitted /\ calls[1].pc = "done")
    => /\ (refreshTrigger = 2 /\ formStateRef.values = ("email" :> ""))
            => /\ calls[1].outcome = "rejected"
               /\ calls[1].reason = [field |-> "email", value |-> "", message |-> RequiredMessage]
       /\ (refreshTrigger = 3 /\ lastOp = Op("setValue", "email", "a@b.com", FALSE, 0))
            => GetError(formStateRef.errors, "email") = NoError
       /\ (/\ refreshTrigger = 5 /\ formStateRef.values = ("email" :> "a@b.com")
           /\ calls[2].kind = "validate" /\ calls[2].omitted /\ calls[2].pc = "done")
            => /\ calls[2].outcome = "resolved"
               /\ calls[2].validatedValues = ("email" :> "a@b.com")

\* C6: right after validate() is called with no names, if some field has a value
\* entry and a non-empty rule chain then the call is checking a rule of such a field
\* (it has not returned without running any rule).
C6_ValidateTargetsAllKeys ==
    \A c \in CallIds :
        (lastOp.op = "validate" /\ lastOp.call = c /\ ~lastOp.flag /\ calls3[c].pc # "idle")
        => LET targets == {f \in DOMAIN formFieldsValueRef :
                               Len(GetRules(formFieldsRulesRef, f)) > 0}
           IN targets # {} => (calls3[c].pc = "check" /\ calls3[c].name \in targets)

\* C7: a setValue / onUpdateFormField(name, value) leaves a values mapping that is
\* the one before with name mapped to value: the written field holds the value just
\* written and every other field keeps the last value written to it.
C7_LastWriteWins ==
    [][/\ lastOp'.op = "setValue"
            => formStateRef'.values = Put(formStateRef.values, lastOp'.name, lastOp'.value)
       /\ lastOp'.op = "onUpdateFormField"
            => formFieldsValueRef' = Put(formFieldsValueRef, lastOp'.name, lastOp'.value)]_vars

\* a field that held "" holds the value written over it, in either variant, while
\* the other field holds the value written to it in between
C7_Witness ==
    \/ /\ lastOp = Op("setValue", "email", "a@b.com", FALSE, 0)
       /\ initialValues.map = ("email" :> "")
       /\ refreshTrigger = 2
       /\ formStateRef.values = ("email" :> "a@b.com" @@ "username" :> "")
    \/ /\ lastOp = Op("onUpdateFormField", "email", "a@b.com", FALSE, 0)
       /\ formFieldsValueRef = ("email" :> "a@b.com")
       /\ \E c \in CallIds : /\ calls3[c].pc = "check"
                             /\ calls3[c].formFieldsValue = ("email" :> "")

\* C8: right after setRules(name, rules) the field carries no error.
C8_SetRulesResetsError ==
    lastOp.op = "setRules" => GetError(formStateRef.errors, lastOp.name) = NoError

\* C9: onUpdateFormField(name, value, ignoredRules) writes values[name] = value;
\* errors[name] becomes absent when ignoredRules is false and stays as it was when
\* ignoredRules is true; no other field's value or error changes.
C9_UpdateFieldFrame ==
    [][lastOp'.op = "onUpdateFormField" =>
          LET name == lastOp'.name IN
          /\ formFieldsValueRef' = Put(formFieldsValueRef, name, lastOp'.value)
          /\ GetError(formFieldsErrorRef', name) =
                 IF lastOp'.flag THEN GetError(formFieldsErrorRef, name) ELSE NoError
          /\ \A f \in Fields \ {name} :
                 GetError(formFieldsErrorRef', f) = GetError(formFieldsErrorRef, f)]_vars

\* C10: right after onDeleteFormField(name), name is a key of none of the values,
\* errors and rules mappings.
C10_DeleteRemovesEveryEntry ==
    lastOp.op = "onDeleteFormField"
    => /\ lastOp.name \notin DOMAIN formFieldsValueRef
       /\ lastOp.name \notin DOMAIN formFieldsErrorRef
       /\ lastOp.name \notin DOMAIN formFieldsRulesRef

\* a field is deleted while a validate call awaits a check of one of its rules (so
\* the field had a value, rules and an error marker)
C10_Witness ==
    /\ lastOp.op = "onDeleteFormField"
    /\ \E c \in CallIds : calls3[c].pc = "check" /\ calls3[c].name = lastOp.name
                           /\ calls3[c].formFieldValue # Undefined

\* C11: a validate([]) call, in either variant, has ended as soon as it was called:
\* it resolved, with an empty result mapping, and it invoked no rule check.
C11_EmptyListValidatesNothing ==
    /\ \A c \in CallIds :
          (calls[c].kind = "validate" /\ ~calls[c].omitted /\ calls[c].names = << >>)
          => /\ calls[c].pc = "done" /\ calls[c].outcome = "resolved"
             /\ calls[c].validatedValues = EmptyObject
             /\ calls[c].invoked = {}
    /\ \A c \in CallIds :
          (calls3[c].pc # "idle" /\ ~calls3[c].omitted /\ calls3[c].lastNames = << >>)
          => /\ calls3[c].pc = "done" /\ calls3[c].outcome = "resolved"
             /\ calls3[c].formFields = EmptyObject
             /\ calls3[c].invoked = {}

\* validate([]) was just called on a form whose email is "" with the rule required
C11_Witness ==
    /\ lastOp.op = "validate" /\ lastOp.flag
    /\ \/ /\ calls[lastOp.call].kind = "validate" /\ calls[lastOp.call].names = << >>
          /\ Get(formStateRef.values, "email") = ""
          /\ GetRules(formStateRef.rules, "email") = <<required>>
       \/ /\ calls3[lastOp.call].pc = "done" /\ calls3[lastOp.call].lastNames = << >>
          /\ Get(formFieldsValueRef, "email") = ""
          /\ GetRules(formFieldsRulesRef, "email") = <<required>>

\* C12: the result mapping of a validate call that resolved has a key only for
\* fields of which the call checked at least one rule: a target field whose rule
\* chain is empty or unregistered is no key of it.
C12_ResultExcludesRulelessFields ==
    \A c \in CallIds :
        (calls[c].kind = "validate" /\ calls[c].pc = "done" /\ calls[c].outcome = "resolved")
        => \A f \in DOMAIN calls[c].validatedValues : <<f, 1>> \in calls[c].invoked

\* C13: when the rule check a validate call awaits throws (or its promise rejects),
\* the call ends at once, rejected with what the check threw.
C13_ThrownCheckRejectsValidate ==
    [][\A c \in CallIds :
          (/\ calls[c].kind = "validate"
           /\ calls[c].pc = "resume" /\ calls[c].fieldOutcome = "rejected"
           /\ calls[c].reason = Thrown
           /\ calls'[c] # calls[c])
          => /\ calls'[c].pc = "done"
             /\ calls'[c].outcome = "rejected"
             /\ calls'[c].reason = Thrown]_vars

\* C14: isValid() is true exactly when no field's entry of errors holds an error (a
\* missing entry and an entry holding undefined both count as no error); and it is
\* true on a form just created, with or without rules registered, on which no
\* validation was started.
C14_IsValidIffNoError ==
    /\ isValid(formStateRef) <=> \A f \in Fields : GetError(formStateRef.errors, f) = NoError
    /\ (/\ \A c \in CallIds : calls[c].pc = "idle"
        /\ lastOp.op \in {"", "setRules"} /\ refreshTrigger <= 1)
       => isValid(formStateRef)

\* isValid() is true on a new form whose email is "" with the rule required, never
\* validated; and it is true again after an error was set and reset, and false in
\* between
C14_Witness ==
    \/ /\ refreshTrigger = 1 /\ lastOp.op = "setRules"
       /\ formStateRef.values = ("email" :> "")
       /\ formStateRef.rules = ("email" :> <<required>>)
       /\ isValid(formStateRef)
    \/ /\ lastOp.op = "resetErrors" /\ "email" \in DOMAIN formStateRef.errors
       /\ isValid(formStateRef)

\* C15: every step that changes values, errors, rules, touched or isValidating
\* changes the refresh counter, and a step that changes none of them leaves the
\* counter as it was.
C15_TokenChangesWithState ==
    [][LET observable(ref) ==
               <<ref.values, ref.errors, ref.rules, ref.touched, ref.isValidating>>
       IN (observable(formStateRef') # observable(formStateRef))
              <=> (refreshTrigger' # refreshTrigger)]_vars

\* C16: a FormItem, a useFormItem() or a useForm() that runs with no enclosing
\* provider throws, and the step changes nothing of either form's state.
C16_UnenclosedBindingThrows ==
    [][(lastOp'.op \in {"FormItem", "FormItem3", "useFormItem", "useForm"}
        /\ ~lastOp'.enclosed)
       => /\ lastOp'.flag
          /\ vars2' = vars2
          /\ vars3' = vars3
          /\ formItems' = formItems]_vars

\* a FormItem was rendered outside a Form, next to a form that holds values and an
\* error: it threw
C16_Witness ==
    /\ lastOp.op \in {"FormItem", "FormItem3"} /\ ~lastOp.enclosed /\ lastOp.flag
    /\ \/ formStateRef.values # EmptyObject /\ ~isValid(formStateRef)
       \/ /\ formFieldsValueRef # EmptyObject
          /\ \E f \in DOMAIN formFieldsErrorRef : formFieldsErrorRef[f] # NoError

\* C17: when a validation goes on from one rule of a field to the next, the next
\* rule is invoked with the value the field holds at that moment, in either variant.
C17_RulesReadCurrentValue ==
    [][/\ \A c \in CallIds :
            (/\ calls[c].pc = "check" /\ calls'[c].pc = "check"
             /\ calls'[c].name = calls[c].name /\ calls'[c].i = calls[c].i + 1)
            => calls'[c].value = Get(formStateRef'.values, calls'[c].name)
       /\ \A c \in CallIds :
            (/\ calls3[c].pc = "check" /\ calls3'[c].pc = "check"
             /\ calls3'[c].name = calls3[c].name /\ calls3'[c].i = calls3[c].i + 1)
            => calls3'[c].formFieldValue = Get(formFieldsValueRef', calls3'[c].name)]_vars

\* C18: the rules of a field are invoked in registration order, each one only after
\* the rule before it returned true (so none after a rule that returned false); and
\* when the awaited rule returns false, the error stored for the field and the
\* error the validation of the field rejects with carry that rule's message.
C18_FirstFailingRuleWins ==
    [][/\ \A c \in CallIds :
            /\ \A p \in calls'[c].invoked \ calls[c].invoked :
                   \/ p[2] = 1
                   \/ /\ calls[c].pc = "check" /\ calls[c].result = "true"
                      /\ calls[c].name = p[1] /\ calls[c].i = p[2] - 1
            /\ (calls[c].pc = "check" /\ calls[c].result = "false" /\ lastOp'.call = c)
                 => LET rule == calls[c].rules[calls[c].i] IN
                    /\ GetError(formStateRef'.errors, calls[c].name).message = rule.message
                    /\ calls'[c].reason = GetError(formStateRef'.errors, calls[c].name)
                    /\ "rejected" \in {calls'[c].outcome, calls'[c].fieldOutcome}
       /\ \A c \in CallIds :
            /\ \A p \in calls3'[c].invoked \ calls3[c].invoked :
                   \/ p[2] = 1
                   \/ /\ calls3[c].pc = "check" /\ calls3[c].result = "true"
                      /\ calls3[c].name = p[1] /\ calls3[c].i = p[2] - 1
            /\ (calls3[c].pc = "check" /\ calls3[c].result = "false" /\ lastOp'.call = c)
                 => LET rule == calls3[c].formFieldRules[calls3[c].i] IN
                    /\ GetError(formFieldsErrorRef', calls3[c].name).message = rule.message
                    /\ calls3'[c].reason = GetError(formFieldsErrorRef', calls3[c].name)
                    /\ calls3'[c].outcome = "rejected"]_vars

\* the chain [required, alwaysFail("msg")] was run on the value "": both rules
\* would fail, only the first was invoked and its message is the one stored
C18_Witness ==
    \/ \E c \in CallIds :
          /\ calls[c].pc \in {"resume", "done"} /\ calls[c].name = "email"
          /\ calls[c].reason = FieldError(required, "email", "")
          /\ GetRules(formStateRef.rules, "email") = <<required, alwaysFail("msg")>>
          /\ GetError(formStateRef.errors, "email").message = RequiredMessage
          /\ <<"email", 2>> \notin calls[c].invoked
    \/ \E c \in CallIds :
          /\ calls3[c].pc = "done" /\ calls3[c].outcome = "rejected"
          /\ calls3[c].invoked = {<<"email", 1>>}
          /\ GetRules(formFieldsRulesRef, "email") = <<required, alwaysFail("msg")>>
          /\ GetError(formFieldsErrorRef, "email") = FormFieldError(RequiredMessage)

\* C19: when the awaited rule of field f returns false, the error stored for f and
\* the error the validation rejects with both have the fields field = f, value = the
\* value the rule was checked against, and message = the rule's message.
C19_ErrorCarriesFieldAndValue ==
    [][/\ \A c \in CallIds :
            (calls[c].pc = "check" /\ calls[c].result = "false" /\ lastOp'.call = c)
            => LET expected == [field |-> calls[c].name, value |-> calls[c].value,
                                message |-> calls[c].rules[calls[c].i].message]
               IN /\ GetError(formStateRef'.errors, calls[c].name) = expected
                  /\ calls'[c].reason = expected
       /\ \A c \in CallIds :
            (calls3[c].pc = "check" /\ calls3[c].result = "false" /\ lastOp'.call = c)
            => LET expected == [field |-> calls3[c].name, value |-> calls3[c].formFieldValue,
                                message |-> calls3[c].formFieldRules[calls3[c].i].message]
               IN /\ GetError(formFieldsErrorRef', calls3[c].name) = expected
                  /\ calls3'[c].reason = expected]_vars

\* C20: the rule checks a validate call has started and that have not settled are
\* never more than one: the one the call awaits, and none when it awaits none.
C20_OneCheckInFlight ==
    /\ \A c \in CallIds :
          /\ Cardinality(calls[c].pending) <= 1
          /\ calls[c].pending =
                 IF calls[c].pc = "check" THEN {<<calls[c].name, calls[c].i>>} ELSE {}
    /\ \A c \in CallIds :
          /\ Cardinality(calls3[c].pending) <= 1
          /\ calls3[c].pending =
                 IF calls3[c].pc = "check" THEN {<<calls3[c].name, calls3[c].i>>} ELSE {}

\* a validate call over two fields awaits a check of its second field after the
\* checks of the first settled; in useCreateForm also the second rule of a chain
C20_Witness ==
    \/ \E c \in CallIds :
          /\ calls[c].kind = "validate" /\ calls[c].pc = "check"
          /\ calls[c].invoked = {<<"email", 1>>, <<"email", 2>>, <<"username", 1>>}
          /\ calls[c].pending = {<<"username", 1>>}
    \/ \E c \in CallIds :
          /\ calls3[c].pc = "check"
          /\ calls3[c].invoked = {<<"email", 1>>, <<"username", 1>>}
          /\ calls3[c].pending = {<<"username", 1>>}

\* C21: an errors entry that holds no error comes to hold one only in a step of a
\* validation (a rule check settles) or when the consumer sets the error by hand
\* (setError, setErrors, onUpdateFormFieldError): registering rules, writing a
\* value, mounting or resetting a field never puts an error there.
C21_ErrorOnlyFromValidation ==
    [][/\ \A f \in Fields :
            (/\ GetError(formStateRef.errors, f) = NoError
             /\ GetError(formStateRef'.errors, f) # NoError)
            => lastOp'.op \in {"checkSettles", "setError", "setErrors"}
       /\ \A f \in Fields :
            (/\ GetError(formFieldsErrorRef, f) = NoError
             /\ GetError(formFieldsErrorRef', f) # NoError)
            => lastOp'.op \in {"checkSettles", "onUpdateFormFieldError"}]_vars

\* C24: setValue(name, value) maps name to value in values and changes nothing
\* else: every other value and the errors, rules, touched and isValidating
\* mappings are what they were, an error of name included.
C24_SetValueFrame ==
    [][lastOp'.op = "setValue" =>
          /\ formStateRef'.values = Put(formStateRef.values, lastOp'.name, lastOp'.value)
          /\ formStateRef'.errors = formStateRef.errors
          /\ formStateRef'.rules = formStateRef.rules
          /\ formStateRef'.touched = formStateRef.touched
          /\ formStateRef'.isValidating = formStateRef.isValidating]_vars

\* a value was written to a field that holds an error, has rules, is being
\* validated, next to a touched field: the error is still there
C24_Witness ==
    /\ lastOp.op = "setValue"
    /\ GetError(formStateRef.errors, lastOp.name) # NoError
    /\ formStateRef.rules # EmptyObject
    /\ \E c \in CallIds : Awaiting(c, lastOp.name)

\* C27: the step in which a validation stores the error of the field whose rule
\* returned false leaves the errors entry of every other field as it was just
\* before the step, in either variant.
C27_ErrorWriteKeepsOtherFields ==
    [][/\ \A c \in CallIds :
            (calls[c].pc = "check" /\ calls[c].result = "false" /\ lastOp'.call = c)
            => \A f \in Fields \ {calls[c].name} :
                   GetError(formStateRef'.errors, f) = GetError(formStateRef.errors, f)
       /\ \A c \in CallIds :
            (calls3[c].pc = "check" /\ calls3[c].result = "false" /\ lastOp'.call = c)
            => \A f \in Fields \ {calls3[c].name} :
                   GetError(formFieldsErrorRef', f) = GetError(formFieldsErrorRef, f)]_vars

\* C28: when the check a validate call awaits settles for a field that was deleted
\* in the meantime (it has no entry in values, errors and rules), the field still
\* has no entry in any of the three after the step.
C28_ValidationKeepsFieldDeleted ==
    [][\A c \in CallIds :
          LET name == calls3[c].name IN
          (/\ calls3[c].pc = "check" /\ lastOp'.call = c
           /\ name \notin DOMAIN formFieldsValueRef
           /\ name \notin DOMAIN formFieldsErrorRef
           /\ name \notin DOMAIN formFieldsRulesRef)
          => /\ name \notin DOMAIN formFieldsValueRef'
             /\ name \notin DOMAIN formFieldsErrorRef'
             /\ name \notin DOMAIN formFieldsRulesRef']_vars

\* C29: reset([name]) restores the value of name to its initial value and clears
\* the error, touched and isValidating entries of name, and leaves the value, error
\* and touched flag of every other field as they were; reset() restores values to
\* initialValues and empties errors, touched and isValidating; rules are unchanged
\* by both.
C29_ResetFrame ==
    [][lastOp'.op = "reset" =>
          /\ formStateRef'.rules = formStateRef.rules
          /\ IF lastOp'.flag
             THEN /\ Get(formStateRef'.values, lastOp'.name) = Get(initialValues.map, lastOp'.name)
                  /\ GetError(formStateRef'.errors, lastOp'.name) = NoError
                  /\ ~GetFlag(formStateRef'.touched, lastOp'.name)
                  /\ ~GetFlag(formStateRef'.isValidating, lastOp'.name)
                  /\ \A f \in Fields \ {lastOp'.name} :
                         /\ Get(formStateRef'.values, f) = Get(formStateRef.values, f)
                         /\ GetError(formStateRef'.errors, f) = GetError(formStateRef.errors, f)
                         /\ GetFlag(formStateRef'.touched, f) = GetFlag(formStateRef.touched, f)
             ELSE /\ formStateRef'.values = initialValues.map
                  /\ formStateRef'.errors = EmptyObject
                  /\ formStateRef'.touched = EmptyObject
                  /\ formStateRef'.isValidating = EmptyObject]_vars

\* C22: when a FormItem has mounted inside a Form, its effect called the operation
\* that registers the rules before the one that writes the initial value, and the
\* field then holds the given rules, the given initial value (when one was given)
\* and no error.
C22_AttachRulesThenValue ==
    (lastOp.op \in {"FormItem", "FormItem3"} /\ lastOp.enclosed)
    => LET log == lastOp.log
           name == lastOp.name
           values == IF lastOp.op = "FormItem" THEN formStateRef.values ELSE formFieldsValueRef
           rules == IF lastOp.op = "FormItem" THEN formStateRef.rules ELSE formFieldsRulesRef
           errors == IF lastOp.op = "FormItem" THEN formStateRef.errors ELSE formFieldsErrorRef
       IN /\ \A i, j \in 1..Len(log) :
                (/\ log[i] \in {"setRules", "onUpdateFormFieldRules"}
                 /\ log[j] \in {"setValue", "onUpdateFormField"}) => i < j
          /\ GetRules(rules, name) = <<required>>
          /\ lastOp.value # Undefined => Get(values, name) = lastOp.value
          /\ GetError(errors, name) = NoError

\* C23: when a FormItem unmounts, with destroyWhenUnmount the field is a key of
\* none of values, errors and rules afterwards; without it (and always in the
\* useCreateForm variant, which has no such prop) the form's state is what it
\* was before the unmount.
C23_DetachDeletesOrKeeps ==
    [][/\ lastOp'.op = "FormItem3.unmount" =>
            IF lastOp'.flag
            THEN /\ lastOp'.name \notin DOMAIN formFieldsValueRef'
                 /\ lastOp'.name \notin DOMAIN formFieldsErrorRef'
                 /\ lastOp'.name \notin DOMAIN formFieldsRulesRef'
            ELSE /\ formFieldsValueRef' = formFieldsValueRef
                 /\ formFieldsErrorRef' = formFieldsErrorRef
                 /\ formFieldsRulesRef' = formFieldsRulesRef
       /\ lastOp'.op = "FormItem.unmount" => formStateRef' = formStateRef]_vars

\* a FormItem without destroyWhenUnmount has unmounted and its field still holds
\* the value written while it was mounted and its rules
C23_Witness ==
    /\ lastOp.op = "FormItem3.unmount" /\ ~lastOp.flag
    /\ Get(formFieldsValueRef, lastOp.name) = "a@b.com"
    /\ GetRules(formFieldsRulesRef, lastOp.name) = <<required>>

\* C26: right after validate() is called with no names on a useCreateForm form,
\* every mounted FormItem whose field has at least one rule is among the fields the
\* call validates.
C26_ValidateCoversAttachedFields ==
    \A c \in CallIds :
        (lastOp.op = "validate" /\ ~lastOp.flag /\ lastOp.call = c /\ calls[c].kind = "validate")
        => \A item \in formItems :
               Len(GetRules(formStateRef.rules, item.name)) > 0
               => Contains(calls[c].fields, item.name)

\* C25: when a submitForm call has returned: if some field it validated failed a
\* rule, onSuccess was not invoked, null was returned and onError, if it was called,
\* got exactly the non-absent entries of the error store; if none failed, onSuccess
\* was invoked, and its result was returned unless it threw.
C25_SubmitCallsOnSuccessOnlyIfValid ==
    \A c \in CallIds :
        calls[c].submit.stage = "done"
        => LET failed == \E j \in 1..Len(calls[c].fields) :
                             calls[c].fields[j] \notin DOMAIN calls[c].validatedValues
           IN IF failed
              THEN /\ ~calls[c].submit.onSuccess
                   /\ calls[c].submit.returned = "null"
                   /\ calls[c].submit.onError
                         => calls[c].submit.onErrorErrors = NonAbsent(calls[c].submit.formErrors)
              ELSE /\ calls[c].submit.onSuccess
                   /\ (lastOp.op = "submitResumes" /\ lastOp.call = c /\ ~lastOp.flag)
                         => calls[c].submit.returned = "result"

\* no call of a wrapped function is in flight
NoneRunning == \A w \in 1..MaxWrapped : wrapped[w] # "running"

\* the component has rendered the current loadingCount and run that render's effects
EffectsRan == ~effectPending /\ rendered = loadingCount

\* C30 as stated: loadingCount is never negative; the modal is shown whenever
\* loadingCount > 0 (once the render of that count and its effect have run); and
\* once every wrapped call has settled loadingCount is 0, whatever direct
\* Loading.open and Loading.close events were emitted.
C30_CountZeroOnceWrappedSettled ==
    /\ loadingCount >= 0
    /\ (EffectsRan /\ loadingCount > 0) => loading
    /\ (\A w \in 1..MaxWrapped : wrapped[w] \in {"resolved", "rejected"}) => loadingCount = 0

\* no wrapped call is in flight and every direct Loading.open was followed by a
\* direct Loading.close
Quiet == NoneRunning /\ direct.unclosed = 0

\* C30, amended: loadingCount is never negative; the modal is shown, and no close
\* timer is pending, whenever loadingCount > 0 and the render of that count and its
\* effect have run; whenever no wrapped call is in flight and every direct
\* Loading.open was followed by a direct Loading.close, loadingCount is 0; and from
\* then on the modal gets hidden with no close timer pending, unless a new open
\* arrives first.
C30_CountZeroOnceBalanced ==
    /\ [](/\ loadingCount >= 0
          /\ (EffectsRan /\ loadingCount > 0) => (loading /\ ~closeTimer)
          /\ Quiet => loadingCount = 0)
    /\ (Quiet ~> ((~loading /\ ~closeTimer) \/ ~Quiet))

\* two wrapped calls ran concurrently, one rejected, next to direct opens and
\* closes; all have settled, the modal was shown and is hidden again
C30_Witness ==
    /\ wrapped = <<"rejected", "resolved">>
    /\ direct = [unclosed |-> 0, events |-> MaxDirect]
    /\ listening /\ EffectsRan
    /\ loadingCount = 0 /\ ~loading /\ ~closeTimer

====
